---------------------------- MODULE Spec2Model ----------------------------
(***************************************************************************)
(* A model of the concurrent range downloader of src/aaa.go.               *)
(*                                                                         *)
(* One Downloader (aaa.go:15-21) probes the server (checkSupportRange),    *)
(* plans the byte ranges (calculateRanges), starts one goroutine per range *)
(* (downloadChunk), waits on a sync.WaitGroup and merges the scratch files *)
(* "0", "1", ... into the output file (mergeFiles).                        *)
(*                                                                         *)
(* The remote resource of length n is the byte string <<1, 2, ..., n>>, so *)
(* that any reordering, loss or duplication of bytes is visible.  The      *)
(* working directory (the scratch files and the output file) outlives a    *)
(* job: main (aaa.go:367-385) is one job per process, and the processes    *)
(* run one after the other in the same directory.                          *)
(*                                                                         *)
(* Reading of the source: in src/aaa.go the "for" statement opened at line *)
(* 114 has no closing brace of its own before wg.Wait() at line 355.  The  *)
(* indentation (wg.Wait() at function level, the "}" at line 365 in column *)
(* 0 closing Download) shows the loop body to be lines 115-127, and that   *)
(* is what is modelled: the loop only starts the goroutines.               *)
(***************************************************************************)
EXTENDS Integers, Sequences, FiniteSets, TLC

\* ------------------------------------------------------------------ bounds
\* Largest remote resource (bytes) of the pipeline specification.
MaxSize == 3
\* Largest -concurrency value of the pipeline specification.
MaxWorkers == 3
\* Number of jobs (process runs) in one working directory.
MaxJobs == 2
\* Number of injected I/O faults (network, disk) in one behaviour.
MaxFaults == 2
\* Largest worker count of a Downloader that is called twice.
MaxReuseWorkers == 2
\* Largest total size and worker count of the planner specification.
MaxPlanSize == 100
MaxPlanWorkers == 10

\* --------------------------------------------------------------- constants
\* http.StatusOK, the only status checkSupportRange accepts.
StatusOK == 200
\* resp.ContentLength of a response that declares no length.
UnknownLength == -1

Nil == "nil"

VARIABLES
    d,         \* the Downloader: [concurrency, size, ranges]
    srcLen,    \* length of the remote resource, unchanged over the run
    lenient,   \* whether the server ignores a Range header it cannot parse
    unlinkOpen,\* whether the system removes a file that is still open (as
               \*   Unix does; Windows refuses, os.Open sharing no delete)
    pc,        \* position of Download: Idle, Probing, Planning, Fetching,
               \*   Merging, Done, Failed
    probe,     \* the response checkSupportRange got in this job, if any
    task,      \* the goroutines started by this job, in launch order
    wg,        \* the sync.WaitGroup counter
    scratch,   \* the scratch files on disk: index -> contents
    dest,      \* the output file: [exists, data]
    mpc,       \* position of mergeFiles: none, create, open, copy, remove
    mi,        \* loop variable i of mergeFiles
    mopen,     \* the files mergeFiles holds open: scratch indices, "out"
    result,    \* what Download returned: Nil (none yet), "ok", "probeErr",
               \*   "mergeErr"
    jobs,      \* number of jobs started so far
    faults,    \* number of I/O faults injected so far
    start,     \* the working directory when this job began (scratch, dest),
               \*   the scratch files when mergeFiles was called (pieces) and
               \*   the call that made mergeFiles return an error (abort)
    hist       \* the finished jobs: [result, dest, size]

vars == <<d, srcLen, lenient, unlinkOpen, pc, probe, task, wg, scratch, dest, mpc, mi, mopen,
          result, jobs, faults, start, hist>>

\* ------------------------------------------------------------ pure helpers
Min(a, b) == IF a <= b THEN a ELSE b

\* The remote resource of length n.
Source(n) == [p \in 1..n |-> p]

\* Mutant of TruncDiv: the quotient is rounded up.
TruncDiv_RoundUp(a, b) == IF a >= 0 THEN (a + b - 1) \div b ELSE -((-a) \div b)

\* Go's integer division truncates towards zero (b > 0).
TruncDiv(a, b) == IF a >= 0 THEN a \div b ELSE -((-a) \div b)

\* The first k elements of s.
Prefix(s, k) == SubSeq(s, 1, k)

\* NewDownloader: size and ranges have their zero values.
NewDownloader(concurrency) ==
    [concurrency |-> concurrency, size |-> 0, ranges |-> <<>>]

\* ----------------------------------------------------------- the file system
NoOutput == [exists |-> FALSE, data |-> <<>>]
OutputOf(data) == [exists |-> TRUE, data |-> data]

\* os.Create / io.Copy on scratch file i: the file holds exactly `data`.
WriteFile(fs, i, data) ==
    [j \in (DOMAIN fs) \cup {i} |-> IF j = i THEN data ELSE fs[j]]

\* os.Remove of scratch file i.
RemoveFile(fs, i) == [j \in (DOMAIN fs) \ {i} |-> fs[j]]

\* ------------------------------------------------------------------ server
\* What http.Head can come back with: a transport error, or a response with
\* a status, an Accept-Ranges header ("" when absent) and a declared length
\* (UnknownLength when the server declares none).
ProbeResponses(n) ==
    {[err |-> TRUE, status |-> 0, acceptRanges |-> "", contentLength |-> 0]}
    \cup
    {[err |-> FALSE, status |-> s, acceptRanges |-> a, contentLength |-> l] :
        s \in {StatusOK, 404}, a \in {"bytes", "none", ""},
        l \in {n, UnknownLength}}

\* "bytes=%d-%d" is a byte-range-spec only when both numbers are written
\* without a sign and first <= last ("bytes=0--1" is none).
ValidRangeHeader(r) == 0 <= r[1] /\ r[1] <= r[2]

\* An error page: one byte that is no byte of the resource.
ErrBody == <<0>>

\* What a server holding Source(n) answers a GET with Range r (RFC 7233): the
\* bytes asked for with 206, 416 when the range starts past the end, and for
\* a header that is no byte-range-spec the whole resource with 200 when the
\* server ignores such a header, 416 when it rejects it.
RangeResponse(r, n, ignoresBadHeader) ==
    IF ValidRangeHeader(r)
    THEN IF r[1] < n
         THEN [status |-> 206,
               body |-> SubSeq(Source(n), r[1] + 1, Min(r[2], n - 1) + 1)]
         ELSE [status |-> 416, body |-> ErrBody]
    ELSE IF ignoresBadHeader
         THEN [status |-> StatusOK, body |-> Source(n)]
         ELSE [status |-> 416, body |-> ErrBody]

\* A server in trouble answers any request with an error page.
FaultResponse == [status |-> 500, body |-> ErrBody]

\* ------------------------------------------------------- checkSupportRange
\* Mutant of checkSupportRange: the declared length is recorded before the
\* status and the header are looked at.
checkSupportRange_RecordsFirst(dd, resp) ==
    IF resp.err
    THEN [d |-> dd, err |-> TRUE]
    ELSE IF resp.status = StatusOK /\ resp.acceptRanges = "bytes"
         THEN [d |-> [dd EXCEPT !.size = resp.contentLength], err |-> FALSE]
         ELSE [d |-> [dd EXCEPT !.size = resp.contentLength], err |-> TRUE]

\* Mutant of checkSupportRange: the Accept-Ranges header is not looked at.
checkSupportRange_AnyServer(dd, resp) ==
    IF resp.err
    THEN [d |-> dd, err |-> TRUE]
    ELSE IF resp.status = StatusOK
         THEN [d |-> [dd EXCEPT !.size = resp.contentLength], err |-> FALSE]
         ELSE [d |-> dd, err |-> TRUE]

\* aaa.go:33-43: the Downloader after the call and whether an error returned.
checkSupportRange(dd, resp) ==
    IF resp.err
    THEN [d |-> dd, err |-> TRUE]
    ELSE IF resp.status = StatusOK /\ resp.acceptRanges = "bytes"
         THEN [d |-> [dd EXCEPT !.size = resp.contentLength], err |-> FALSE]
         ELSE [d |-> dd, err |-> TRUE]

\* --------------------------------------------------------- calculateRanges
\* Mutant of RangeOf: the last range is not stretched to the end of the
\* resource (lines 51-53 left out).
RangeOf_NoRemainder(i, size, concurrency) ==
    LET chunkSize == TruncDiv(size, concurrency)
        first == i * chunkSize
    IN  <<first, first + chunkSize - 1>>

\* Mutant of RangeOf: the end is taken as exclusive (line 50 without "- 1").
RangeOf_ExclusiveEnd(i, size, concurrency) ==
    LET chunkSize == TruncDiv(size, concurrency)
        first == i * chunkSize
        last == IF i = concurrency - 1 THEN size - 1 ELSE first + chunkSize
    IN  <<first, last>>

\* aaa.go:49-53: the range of goroutine i.
RangeOf(i, size, concurrency) ==
    LET chunkSize == TruncDiv(size, concurrency)
        first == i * chunkSize
        last == IF i = concurrency - 1 THEN size - 1 ELSE first + chunkSize - 1
    IN  <<first, last>>

\* aaa.go:48-55: the loop, from i on, appending to ranges.
RECURSIVE AppendRanges(_, _, _, _)
AppendRanges(ranges, i, size, concurrency) ==
    IF i < concurrency
    THEN AppendRanges(Append(ranges, RangeOf(i, size, concurrency)),
                      i + 1, size, concurrency)
    ELSE ranges

\* aaa.go:46-56.
calculateRanges(dd) ==
    [dd EXCEPT !.ranges = AppendRanges(dd.ranges, 0, dd.size, dd.concurrency)]

\* ------------------------------------------------------------ the goroutines
\* Mutant of NewTask: every goroutine is given the scratch file name "0".
NewTask_SameFile(i, r) ==
    [pc |-> "start", file |-> 0, r |-> r, status |-> 0, body |-> <<>>,
     err |-> FALSE, cause |-> "none", bodyOpen |-> FALSE, fileOpen |-> FALSE]

\* aaa.go:116-118: the goroutine started for index i (0-based) and range r.
\* file is the scratch file it will write, strconv.Itoa(i).
NewTask(i, r) ==
    [pc |-> "start", file |-> i, r |-> r, status |-> 0, body |-> <<>>,
     err |-> FALSE, cause |-> "none", bodyOpen |-> FALSE, fileOpen |-> FALSE]

\* Mutant of Return: the deferred Close calls run only on the successful
\* return.
Return_LeakOnError(t, err, cause) ==
    [t EXCEPT !.pc = "done", !.err = err, !.cause = cause,
              !.bodyOpen = IF err THEN @ ELSE FALSE,
              !.fileOpen = IF err THEN @ ELSE FALSE]

\* aaa.go:69, 74, 117: a return of downloadChunk runs the deferred Close
\* calls; the goroutine logs the outcome and ends.  cause records what went
\* wrong, if anything: "connect", "create" or "copy".
Return(t, err, cause) ==
    [t EXCEPT !.pc = "done", !.err = err, !.cause = cause,
              !.bodyOpen = FALSE, !.fileOpen = FALSE]

\* aaa.go:65-69: a response arrived; its status is not looked at.
GotResponse(t, resp) ==
    [t EXCEPT !.pc = "resp", !.status = resp.status, !.body = resp.body,
              !.bodyOpen = TRUE]

\* Mutant of wgDone: the goroutine signals the wait group only when
\* downloadChunk returned no error.
wgDone_OnSuccessOnly(counter, err) == IF err THEN counter ELSE counter - 1

\* aaa.go:117: defer wg.Done() runs when the goroutine ends, whatever
\* downloadChunk returned.
wgDone(counter, err) == counter - 1

\* Mutant of WaitReturns: Download does not wait for the goroutines.
WaitReturns_NoWait(counter) == TRUE

\* aaa.go:355: wg.Wait() returns when the counter is zero.
WaitReturns(counter) == counter = 0

\* Mutant of LoopDone: the loop stops one range early.
LoopDone_OneShort(started, ranges) == Len(started) >= Len(ranges) - 1

\* aaa.go:114: the loop over d.ranges has started a goroutine for each entry.
LoopDone(started, ranges) == Len(started) = Len(ranges)

\* Mutant of AfterBarrier: Download gives up when a goroutine reported an
\* error.
AfterBarrier_FailFast(started) ==
    IF \E k \in 1..Len(started) : started[k].err THEN "Failed" ELSE "Merging"

\* aaa.go:355-358: after the barrier Download calls mergeFiles, whatever the
\* goroutines reported.
AfterBarrier(started) == "Merging"

\* ------------------------------------------------------------------ actions
\* A Downloader dd at position `at` of its first job, a server, and a working
\* directory that holds no scratch file and the output file `out`.
Fresh(dd, n, out, at) ==
    /\ d = dd
    /\ srcLen = n
    /\ lenient \in BOOLEAN
    /\ unlinkOpen \in BOOLEAN
    /\ pc = at
    /\ probe = <<>>
    /\ task = <<>>
    /\ wg = 0
    /\ scratch = <<>>
    /\ dest = out
    /\ mpc = "none"
    /\ mi = 0
    /\ mopen = {}
    /\ result = Nil
    /\ jobs = 1
    /\ faults = 0
    /\ start = [scratch |-> <<>>, dest |-> out, pieces |-> <<>>,
                abort |-> "none"]
    /\ hist = <<>>

\* One job.  The output path either does not exist yet or holds an earlier
\* download of the resource.
Init ==
    \E n \in 0..MaxSize, c \in 1..MaxWorkers :
        \E out \in {NoOutput, OutputOf(Source(n))} :
            Fresh(NewDownloader(c), n, out, "Idle")

\* aaa.go:103-104: Download is called.
DownloadCall ==
    /\ pc = "Idle"
    /\ pc' = "Probing"
    /\ start' = [scratch |-> scratch, dest |-> dest, pieces |-> <<>>,
                abort |-> "none"]
    /\ UNCHANGED <<d, srcLen, lenient, unlinkOpen, probe, task, wg, scratch, dest, mpc,
                   mi, mopen, result, jobs, faults, hist>>

\* aaa.go:105-107: checkSupportRange; on an error Download returns it.
Probe ==
    /\ pc = "Probing"
    /\ \E resp \in ProbeResponses(srcLen) :
         LET res == checkSupportRange(d, resp) IN
         /\ probe' = <<resp>>
         /\ d' = res.d
         /\ IF res.err
            THEN /\ pc' = "Failed"
                 /\ result' = "probeErr"
                 /\ hist' = Append(hist, [result |-> "probeErr", dest |-> dest,
                                          size |-> res.d.size])
            ELSE /\ pc' = "Planning"
                 /\ UNCHANGED <<result, hist>>
    /\ UNCHANGED <<srcLen, lenient, unlinkOpen, task, wg, scratch, dest, mpc, mi, mopen,
                   jobs, faults, start>>

\* aaa.go:108-110: calculateRanges.
Plan ==
    /\ pc = "Planning"
    /\ d' = calculateRanges(d)
    /\ pc' = "Fetching"
    /\ UNCHANGED <<srcLen, lenient, unlinkOpen, probe, task, wg, scratch, dest, mpc, mi,
                   mopen, result, jobs, faults, start, hist>>

\* aaa.go:114-127: one iteration of the loop: wg.Add(1) and the go statement.
Launch ==
    /\ pc = "Fetching"
    /\ ~LoopDone(task, d.ranges)
    /\ wg' = wg + 1
    /\ task' = Append(task, NewTask(Len(task), d.ranges[Len(task) + 1]))
    /\ UNCHANGED <<d, srcLen, lenient, unlinkOpen, pc, probe, scratch, dest, mpc, mi,
                   mopen, result, jobs, faults, start, hist>>

\* aaa.go:60-68: the request is sent.  Either the transport fails and
\* downloadChunk returns the error, or a response arrives.
Request(k) ==
    /\ task[k].pc = "start"
    /\ \/ /\ faults < MaxFaults
          /\ faults' = faults + 1
          /\ task' = [task EXCEPT ![k] = Return(@, TRUE, "connect")]
          /\ wg' = wgDone(wg, TRUE)
       \/ /\ task' = [task EXCEPT ![k] =
                         GotResponse(@, RangeResponse(@.r, srcLen, lenient))]
          /\ UNCHANGED <<wg, faults>>
       \/ /\ faults < MaxFaults
          /\ faults' = faults + 1
          /\ task' = [task EXCEPT ![k] = GotResponse(@, FaultResponse)]
          /\ UNCHANGED wg
    /\ UNCHANGED <<d, srcLen, lenient, unlinkOpen, pc, probe, scratch, dest, mpc, mi,
                   mopen, result, jobs, start, hist>>

\* aaa.go:70-74: os.Create makes the scratch file, empty, or fails.
Create(k) ==
    /\ task[k].pc = "resp"
    /\ \/ /\ scratch' = WriteFile(scratch, task[k].file, <<>>)
          /\ task' = [task EXCEPT ![k].pc = "file", ![k].fileOpen = TRUE]
          /\ UNCHANGED <<wg, faults>>
       \/ /\ faults < MaxFaults
          /\ faults' = faults + 1
          /\ task' = [task EXCEPT ![k] = Return(@, TRUE, "create")]
          /\ wg' = wgDone(wg, TRUE)
          /\ UNCHANGED scratch
    /\ UNCHANGED <<d, srcLen, lenient, unlinkOpen, pc, probe, dest, mpc, mi, mopen, result,
                   jobs, start, hist>>

\* aaa.go:75-78: io.Copy writes the whole body, or stops with an error after
\* fewer than all its bytes.
Copy(k) ==
    /\ task[k].pc = "file"
    /\ \/ /\ scratch' = WriteFile(scratch, task[k].file, task[k].body)
          /\ task' = [task EXCEPT ![k] = Return(@, FALSE, "none")]
          /\ wg' = wgDone(wg, FALSE)
          /\ UNCHANGED faults
       \/ /\ faults < MaxFaults
          /\ faults' = faults + 1
          /\ \E n \in 0..(IF task[k].body = <<>> THEN 0
                           ELSE Len(task[k].body) - 1) :
                scratch' = WriteFile(scratch, task[k].file,
                                     Prefix(task[k].body, n))
          /\ task' = [task EXCEPT ![k] = Return(@, TRUE, "copy")]
          /\ wg' = wgDone(wg, TRUE)
    /\ UNCHANGED <<d, srcLen, lenient, unlinkOpen, pc, probe, dest, mpc, mi, mopen, result,
                   jobs, start, hist>>

\* aaa.go:355-358: wg.Wait() returns and mergeFiles is called.
Barrier ==
    /\ pc = "Fetching"
    /\ LoopDone(task, d.ranges)
    /\ WaitReturns(wg)
    /\ pc' = AfterBarrier(task)
    /\ mpc' = "create"
    /\ start' = [start EXCEPT !.pieces = scratch]
    /\ UNCHANGED <<d, srcLen, lenient, unlinkOpen, probe, task, wg, scratch,
                   dest, mi, mopen, result, jobs, faults, hist>>

\* --------------------------------------------------------------- mergeFiles
\* aaa.go:87, 93, 359-363: mergeFiles returns; its deferred Close calls run,
\* and Download returns what mergeFiles returned.
MergeReturns(err, out, why) ==
    /\ start' = [start EXCEPT !.abort = why]
    /\ mopen' = {}
    /\ mpc' = "none"
    /\ pc' = IF err THEN "Failed" ELSE "Done"
    /\ result' = IF err THEN "mergeErr" ELSE "ok"
    /\ hist' = Append(hist, [result |-> IF err THEN "mergeErr" ELSE "ok",
                             dest |-> out, size |-> d.size])

\* aaa.go:89, 93: os.Open of scratch file i; its Close is deferred, so the
\* file stays open until mergeFiles returns.
OpenPiece(open, i) == open \cup {ToString(i)}

\* aaa.go:97: os.Remove(strconv.Itoa(i)); its error is dropped.  A file that
\* is still open goes only where the system removes open files.
RemovePiece(fs, i, open, canUnlinkOpen) ==
    IF ToString(i) \in open /\ ~canUnlinkOpen THEN fs ELSE RemoveFile(fs, i)

\* aaa.go:83-87: os.Create(d.output) truncates the output file, or fails.
MergeCreate ==
    /\ pc = "Merging" /\ mpc = "create"
    /\ \/ /\ dest' = OutputOf(<<>>)
          /\ mopen' = {"out"}
          /\ mpc' = "open"
          /\ mi' = 0
          /\ UNCHANGED <<pc, result, hist, faults, start>>
       \/ /\ faults < MaxFaults
          /\ faults' = faults + 1
          /\ MergeReturns(TRUE, dest, "create")
          /\ UNCHANGED <<dest, mi>>
    /\ UNCHANGED <<d, srcLen, lenient, unlinkOpen, probe, task, wg, scratch,
                   jobs>>

\* aaa.go:88-93: the loop condition and os.Open(strconv.Itoa(i)); a scratch
\* file that does not exist makes mergeFiles return the error.
MergeOpen ==
    /\ pc = "Merging" /\ mpc = "open"
    /\ mi < d.concurrency
    /\ IF mi \in DOMAIN scratch
       THEN /\ mopen' = OpenPiece(mopen, mi)
            /\ mpc' = "copy"
            /\ UNCHANGED <<pc, result, hist, start>>
       ELSE MergeReturns(TRUE, dest, "open")
    /\ UNCHANGED <<d, srcLen, lenient, unlinkOpen, probe, task, wg, scratch,
                   dest, mi, jobs, faults>>

\* aaa.go:94-96: io.Copy appends the scratch file to the output, or stops
\* with an error after fewer than all its bytes.
MergeCopy ==
    /\ pc = "Merging" /\ mpc = "copy"
    /\ \/ /\ dest' = OutputOf(dest.data \o scratch[mi])
          /\ mpc' = "remove"
          /\ UNCHANGED <<pc, result, hist, mopen, faults, start>>
       \/ /\ faults < MaxFaults
          /\ faults' = faults + 1
          /\ \E n \in 0..(IF scratch[mi] = <<>> THEN 0
                           ELSE Len(scratch[mi]) - 1) :
                /\ dest' = OutputOf(dest.data \o Prefix(scratch[mi], n))
                /\ MergeReturns(TRUE, dest', "copy")
    /\ UNCHANGED <<d, srcLen, lenient, unlinkOpen, probe, task, wg, scratch, mi,
                   jobs>>

\* aaa.go:97-98: os.Remove(strconv.Itoa(i)), then i++.
MergeRemove ==
    /\ pc = "Merging" /\ mpc = "remove"
    /\ scratch' = RemovePiece(scratch, mi, mopen, unlinkOpen)
    /\ mi' = mi + 1
    /\ mpc' = "open"
    /\ UNCHANGED <<d, srcLen, lenient, unlinkOpen, pc, probe, task, wg, dest, mopen,
                   result, jobs, faults, start, hist>>

\* aaa.go:88, 99: the loop is over; mergeFiles returns nil.
MergeDone ==
    /\ pc = "Merging" /\ mpc = "open"
    /\ ~(mi < d.concurrency)
    /\ MergeReturns(FALSE, dest, "none")
    /\ UNCHANGED <<d, srcLen, lenient, unlinkOpen, probe, task, wg, scratch,
                   dest, mi, jobs, faults>>

\* aaa.go:367-385: the next process: main builds a new Downloader with the
\* same flags, in the same working directory.
NewJob ==
    /\ pc \in {"Done", "Failed"}
    /\ jobs < MaxJobs
    /\ jobs' = jobs + 1
    /\ d' = NewDownloader(d.concurrency)
    /\ pc' = "Idle"
    /\ probe' = <<>>
    /\ task' = <<>>
    /\ wg' = 0
    /\ mi' = 0
    /\ result' = Nil
    /\ start' = [scratch |-> scratch, dest |-> dest, pieces |-> <<>>,
                abort |-> "none"]
    /\ UNCHANGED <<srcLen, lenient, unlinkOpen, scratch, dest, mpc, mopen, faults, hist>>

\* aaa.go:103: Download has returned and is called once more on the same
\* Downloader: its fields are what the earlier call left in them.
Redownload ==
    /\ pc \in {"Done", "Failed"}
    /\ jobs < MaxJobs
    /\ jobs' = jobs + 1
    /\ pc' = "Idle"
    /\ probe' = <<>>
    /\ task' = <<>>
    /\ wg' = 0
    /\ mi' = 0
    /\ result' = Nil
    /\ start' = [scratch |-> scratch, dest |-> dest, pieces |-> <<>>,
                abort |-> "none"]
    /\ UNCHANGED <<d, srcLen, lenient, unlinkOpen, scratch, dest, mpc, mopen,
                   faults, hist>>

\* ----------------------------------------------------------- specifications
\* One call of Download.
Next ==
    \/ DownloadCall
    \/ Probe
    \/ Plan
    \/ Launch
    \/ \E k \in 1..Len(task) : Request(k)
    \/ \E k \in 1..Len(task) : Create(k)
    \/ \E k \in 1..Len(task) : Copy(k)
    \/ Barrier
    \/ MergeCreate
    \/ MergeOpen
    \/ MergeCopy
    \/ MergeRemove
    \/ MergeDone

Spec == Init /\ [][Next]_vars

\* The steps of Download itself and of mergeFiles, which it calls.
Coordinator ==
    \/ DownloadCall
    \/ Probe
    \/ Plan
    \/ Launch
    \/ Barrier
    \/ MergeCreate
    \/ MergeOpen
    \/ MergeCopy
    \/ MergeRemove
    \/ MergeDone

\* The steps of goroutine k.
Goroutine(k) ==
    /\ k \in 1..Len(task)
    /\ (Request(k) \/ Create(k) \/ Copy(k))

\* One call of Download in which every network and file operation returns:
\* Download and each goroutine keep taking steps while they can.
LiveSpec ==
    /\ Init /\ [][Next]_vars
    /\ WF_vars(Coordinator)
    /\ \A k \in 1..MaxWorkers : WF_vars(Goroutine(k))

\* Several jobs, one after the other, in a working directory that is empty
\* before the first.
RerunInit ==
    \E n \in 0..MaxSize, c \in 1..MaxWorkers :
        Fresh(NewDownloader(c), n, NoOutput, "Idle")

RerunNext ==
    \/ Next
    \/ NewJob

RerunSpec == RerunInit /\ [][RerunNext]_vars

\* Several calls of Download on one Downloader, one after the other, in a
\* working directory that is empty before the first.
ReuseInit ==
    \E n \in 0..MaxSize, c \in 1..MaxReuseWorkers :
        Fresh(NewDownloader(c), n, NoOutput, "Idle")

ReuseNext ==
    \/ Next
    \/ Redownload

ReuseSpec == ReuseInit /\ [][ReuseNext]_vars

\* calculateRanges alone, on the sizes checkSupportRange can record and the
\* positive worker counts.
PlanInit ==
    \E n \in {UnknownLength} \cup 0..MaxPlanSize, c \in 1..MaxPlanWorkers :
        Fresh([NewDownloader(c) EXCEPT !.size = n], 0, NoOutput, "Planning")

PlanNext == Plan

PlanSpec == PlanInit /\ [][PlanNext]_vars

\* =================================================================== claims

\* The bytes a range covers.
Covered(r) == r[1]..r[2]

\* C1 (PlanSpec): for totalSize >= workerCount > 0, calculateRanges, starting
\* from an empty range list, produces ascending, contiguous, non-overlapping
\* ranges: the first starts at 0, each next one starts at the previous end
\* + 1, every range has end >= start, the last ends at totalSize - 1, and
\* their union is exactly 0..totalSize-1.
C1_RangesPartition ==
    (pc = "Fetching" /\ d.size >= d.concurrency /\ d.concurrency > 0) =>
        LET R == d.ranges
            n == Len(R)
        IN  /\ n = d.concurrency
            /\ R[1][1] = 0
            /\ \A i \in 1..(n - 1) : R[i + 1][1] = R[i][2] + 1
            /\ \A i \in 1..n : R[i][2] >= R[i][1]
            /\ R[n][2] = d.size - 1
            /\ \A i, j \in 1..n : i # j => Covered(R[i]) \cap Covered(R[j]) = {}
            /\ UNION {Covered(R[i]) : i \in 1..n} = 0..(d.size - 1)

\* C1 witness: a size the worker count does not divide has been planned, and
\* the last range took the remainder.
C1_Witness ==
    /\ pc = "Fetching"
    /\ d.size = 10 /\ d.concurrency = 4
    /\ d.ranges = << <<0, 1>>, <<2, 3>>, <<4, 5>>, <<6, 9>> >>

\* The planner's formula as the specification writes it.
ReferenceRange(i, totalSize, workerCount) ==
    LET chunkSize == totalSize \div workerCount
    IN  IF i = workerCount - 1
        THEN <<i * chunkSize, totalSize - 1>>
        ELSE <<i * chunkSize, i * chunkSize + chunkSize - 1>>

\* C9 (PlanSpec): for totalSize >= 0 and workerCount > 0 calculateRanges
\* yields, for i in [0, workerCount), start = i * chunkSize and end = start +
\* chunkSize - 1 with chunkSize = totalSize / workerCount, except that the
\* last end is totalSize - 1; for 100 and 4 that is [0,24] [25,49] [50,74]
\* [75,99].
C9_MatchesReference ==
    (pc = "Fetching" /\ d.size >= 0 /\ d.concurrency > 0) =>
        /\ d.ranges = [i \in 1..d.concurrency |->
                          ReferenceRange(i - 1, d.size, d.concurrency)]
        /\ (d.size = 100 /\ d.concurrency = 4) =>
              d.ranges = << <<0, 24>>, <<25, 49>>, <<50, 74>>, <<75, 99>> >>

\* C9 witness: the scenario of the specification has been planned.
C9_Witness ==
    /\ pc = "Fetching"
    /\ d.size = 100 /\ d.concurrency = 4
    /\ Len(d.ranges) = 4
    /\ d.ranges[4] = <<75, 99>>

\* The goroutines of the job that have returned / that reported an error.
Returned == {k \in 1..Len(task) : task[k].pc = "done"}
Failing == {k \in 1..Len(task) : task[k].err}

\* mergeFiles has been called in this job.
MergeStarted == pc \in {"Merging", "Done"} \/ result = "mergeErr"

\* C2 (Spec): mergeFiles never starts before every goroutine Download started
\* has returned: from the moment it is called, one goroutine per planned
\* range has been started and each of them has returned, with or without an
\* error; before that moment the merge has touched nothing.
C2_BarrierBeforeMerge ==
    /\ MergeStarted =>
          /\ Len(task) = Len(d.ranges)
          /\ Returned = 1..Len(d.ranges)
          /\ wg = 0
    /\ ~MergeStarted => (mpc = "none" /\ mopen = {} /\ dest = start.dest)

\* C2 witness: the merge has started after a job in which one goroutine
\* failed and another succeeded.
C2_Witness ==
    /\ pc = "Merging"
    /\ \E j, k \in 1..Len(task) : task[j].err /\ ~task[k].err

\* The ordinary case: the probe recorded the true length of the resource and
\* there is at least one byte for each worker.
Ordinary(size) == size = srcLen /\ size >= d.concurrency

\* C3 (Spec), as claimed, here for the ordinary case alone: when Download
\* reports success the output file is byte for byte the remote resource.
C3_SuccessMeansIdentical ==
    (result = "ok" /\ Ordinary(d.size)) =>
        (dest.exists /\ dest.data = Source(srcLen))

\* The probe the job got is one the claim calls failed: a transport error, a
\* status other than success, or no "Accept-Ranges: bytes".
ProbeFailed ==
    /\ probe # <<>>
    /\ \/ probe[1].err
       \/ probe[1].status # 200
       \/ probe[1].acceptRanges # "bytes"

\* C4 (Spec): when the probe fails Download fails at once: no goroutine is
\* started, mergeFiles is not called, no scratch file is made and the output
\* file is neither created nor truncated.
C4_ProbeFailureStopsJob ==
    ProbeFailed =>
        /\ pc = "Failed" /\ result = "probeErr"
        /\ task = <<>> /\ wg = 0
        /\ mpc = "none" /\ mopen = {}
        /\ scratch = start.scratch
        /\ dest = start.dest

\* C4 witness: a server without Accept-Ranges made the job fail, and the
\* output file of an earlier download is still whole.
C4_Witness ==
    /\ ProbeFailed
    /\ ~probe[1].err /\ probe[1].status = 200
    /\ pc = "Failed"
    /\ srcLen > 0
    /\ dest = OutputOf(Source(srcLen))

\* C5 (Spec), as claimed, here for the ordinary case and two goroutines or
\* more: when exactly one goroutine of a job failed, the job does not report
\* success but a merge error.
C5_OneFailureFailsJob ==
    (result \in {"ok", "mergeErr"} /\ Ordinary(d.size)
        /\ Len(task) >= 2 /\ Cardinality(Failing) = 1) =>
        result = "mergeErr"

\* The steps of the job's state machine.
JobTransitions ==
    {<<"Idle", "Probing">>, <<"Probing", "Planning">>, <<"Probing", "Failed">>,
     <<"Planning", "Fetching">>, <<"Fetching", "Merging">>,
     <<"Merging", "Done">>, <<"Merging", "Failed">>}

\* C6 (Spec): the job goes Idle -> Probing -> Planning -> Fetching -> Merging
\* -> Done | Failed; Failed is entered only from Probing, with the probe's
\* error, or from Merging, with the merge's error; Download returns nothing
\* while fetching, and once every goroutine has returned, failed or not, the
\* call of mergeFiles is the step that follows.
C6_JobStateMachine ==
    [][/\ pc' # pc => <<pc, pc'>> \in JobTransitions
       /\ (pc' = "Failed" /\ pc = "Probing") => result' = "probeErr"
       /\ (pc' = "Failed" /\ pc = "Merging") => result' = "mergeErr"
       /\ pc = "Fetching" => result' = Nil
       /\ (pc = "Fetching" /\ Returned = 1..Len(d.ranges)) =>
             (pc' = "Merging" /\ mpc' = "create")]_vars

\* C6 witness: mergeFiles is being called although a goroutine failed.
C6_Witness ==
    /\ pc = "Merging" /\ mpc = "create"
    /\ Failing # {}

\* C7 (Spec): Download starts exactly one goroutine per planned range, as many
\* as the worker count: the goroutine started for range index i has that
\* range and writes scratch file i, and once the loop is over no range is
\* without its goroutine.
C7_OneTaskPerRange ==
    /\ Len(task) <= Len(d.ranges)
    /\ \A k \in 1..Len(task) : task[k].file = k - 1 /\ task[k].r = d.ranges[k]
    /\ \A i \in DOMAIN scratch :
          \E k \in 1..Len(task) :
              task[k].file = i /\ task[k].pc \in {"file", "done"}
    /\ MergeStarted =>
          /\ Len(task) = d.concurrency
          /\ Len(d.ranges) = d.concurrency

\* C7 witness: three goroutines run at once, each on its own scratch file.
C7_Witness ==
    /\ pc = "Fetching"
    /\ Len(task) = 3 /\ d.concurrency = 3
    /\ \A k \in 1..3 : task[k].pc = "file"
    /\ DOMAIN scratch = {0, 1, 2}

\* C8 (RerunSpec), as claimed, here for the ordinary case alone: two runs of
\* the pipeline against the same resource that both report success leave the
\* same output file.
C8_RerunSameOutput ==
    \A i, j \in 1..Len(hist) :
        (/\ hist[i].result = "ok" /\ Ordinary(hist[i].size)
         /\ hist[j].result = "ok" /\ Ordinary(hist[j].size)) =>
            hist[i].dest = hist[j].dest

\* C10 (Spec), as claimed, here for the ordinary case alone: downloadChunk
\* reports an error when the connection failed, when the status of the
\* response is not a success (0 stands for no response), and when writing the
\* scratch file failed.
C10_FetchFailuresReported ==
    Ordinary(d.size) =>
        \A k \in Returned :
            (\/ task[k].cause # "none"
             \/ task[k].status \notin {0, 200, 206}) => task[k].err

\* The contents of the scratch files i, i + 1, ..., n - 1 of fs, one after
\* the other.
RECURSIVE Pieces(_, _, _)
Pieces(fs, i, n) == IF i < n THEN fs[i] \o Pieces(fs, i + 1, n) ELSE <<>>

\* C11 (Spec), as claimed, here for the ordinary case and a job whose
\* goroutines all succeeded: when mergeFiles returns nil the output file holds the scratch pieces 0 .. concurrency-1 as
\* they were when it was called, in ascending order, each once, and none of
\* these pieces is left on disk.
C11_MergedAndRemoved ==
    (result = "ok" /\ Ordinary(d.size) /\ Failing = {}) =>
        /\ dest = OutputOf(Pieces(start.pieces, 0, d.concurrency))
        /\ \A i \in 0..(d.concurrency - 1) : i \notin DOMAIN scratch

\* C12 (Spec), as claimed, here for the ordinary case and a job in which one
\* goroutine failed: when scratch
\* piece k (the loop variable mi at the return) cannot be opened mergeFiles
\* returns an error at once: the pieces before k have been appended and
\* removed, no piece after k has been touched, and the output file is left
\* holding exactly the pieces before k.
C12_StopsAtMissingPiece ==
    (result = "mergeErr" /\ start.abort = "open" /\ Ordinary(d.size)
        /\ Cardinality(Failing) = 1) =>
        /\ mi \notin DOMAIN start.pieces
        /\ dest = OutputOf(Pieces(start.pieces, 0, mi))
        /\ \A i \in 0..(mi - 1) : i \notin DOMAIN scratch
        /\ \A i \in DOMAIN start.pieces :
              i > mi => (i \in DOMAIN scratch /\ scratch[i] = start.pieces[i])

\* Scratch file i is written in this step: it appears or its contents change.
Written(i) ==
    /\ i \in DOMAIN scratch'
    /\ (i \notin DOMAIN scratch \/ scratch'[i] # scratch[i])

OpenPieces == mopen \ {"out"}

\* C14 (Spec), as claimed, here for the ordinary case and a job in which no
\* goroutine failed: mergeFiles handles the pieces one at a time, open,
\* append, close, delete: a piece is closed when it is removed (mergeFiles is
\* about to open the next one or to return), and at most one piece is open at
\* any moment of the merge.
C14_OnePieceAtATime ==
    (pc = "Merging" /\ Ordinary(d.size) /\ Failing = {}) =>
        /\ Cardinality(OpenPieces) <= 1
        /\ mpc = "open" => OpenPieces = {}

\* C15 (Spec): a goroutine that has returned from downloadChunk holds neither
\* the response body nor the scratch file open, whatever the exit path; until
\* then the body is open from the response on and the file from os.Create on.
C15_ClosedOnReturn ==
    \A k \in 1..Len(task) :
        /\ task[k].pc = "start" => ~task[k].bodyOpen /\ ~task[k].fileOpen
        /\ task[k].pc = "resp" => task[k].bodyOpen /\ ~task[k].fileOpen
        /\ task[k].pc = "file" => task[k].bodyOpen /\ task[k].fileOpen
        /\ task[k].pc = "done" => ~task[k].bodyOpen /\ ~task[k].fileOpen

\* C15 witness: one goroutine returned because os.Create failed, with a
\* response in hand, another because io.Copy failed, with response and file
\* in hand, and both hold nothing open.
C15_Witness ==
    \E j, k \in 1..Len(task) :
        /\ task[j].pc = "done" /\ task[j].cause = "create"
        /\ task[j].status = 206
        /\ task[k].pc = "done" /\ task[k].cause = "copy"
        /\ task[k].status = 206 /\ task[k].file \in DOMAIN scratch
        /\ ~task[j].bodyOpen /\ ~task[k].bodyOpen /\ ~task[k].fileOpen

\* The probe response asks for nothing more: no transport error, status 200
\* and the header Accept-Ranges: bytes.
Supported(resp) ==
    ~resp.err /\ resp.status = StatusOK /\ resp.acceptRanges = "bytes"

C17_SmallResource ==
    (pc = "Fetching" /\ 0 <= d.size /\ d.size < d.concurrency) =>
        /\ Len(d.ranges) = d.concurrency
        /\ \A i \in 1..(d.concurrency - 1) : d.ranges[i] = <<0, -1>>
        /\ d.ranges[d.concurrency] = <<0, d.size - 1>>
        /\ (d.size = 5 /\ d.concurrency = 10) =>
              d.ranges = <<<<0, -1>>, <<0, -1>>, <<0, -1>>, <<0, -1>>,
                           <<0, -1>>, <<0, -1>>, <<0, -1>>, <<0, -1>>,
                           <<0, -1>>, <<0, 4>>>>

\* C17 witness: the ranges of a 5-byte resource for 10 workers are planned.
C17_Witness ==
    /\ pc = "Fetching"
    /\ d.size = 5 /\ d.concurrency = 10
    /\ Len(d.ranges) = 10

\* Goroutine k created its scratch file: it got past os.Create.
CreatedPiece(k) ==
    \/ task[k].pc = "file"
    \/ task[k].pc = "done" /\ task[k].cause \in {"none", "copy"}

\* C18 (RerunSpec), as claimed, here for jobs that all are of the ordinary
\* case, on a system that removes open files: the scratch piece mergeFiles has just appended to the
\* output was created by a goroutine of the job that is merging; a piece an
\* earlier job left behind is not read.
C18_OwnPiecesOnly ==
    (/\ pc = "Merging" /\ mpc = "remove" /\ unlinkOpen
     /\ Ordinary(d.size)
     /\ \A j \in 1..Len(hist) : Ordinary(hist[j].size)) =>
        \E k \in 1..Len(task) : task[k].file = mi /\ CreatedPiece(k)

\* C19 (ReuseSpec), as claimed, here for the ordinary case, when nothing
\* failed and every earlier call succeeded: in every call of
\* Download, a second call on the same Downloader included, the range list
\* has exactly concurrency entries once planning is over, and after a merge
\* that succeeded, on a system that removes open files, no scratch file a
\* goroutine of the call created is left on disk.
C19_RangesMatchWorkers ==
    (/\ pc \in {"Fetching", "Merging", "Done"}
     /\ Ordinary(d.size)
     /\ faults = 0
     /\ \A j \in 1..Len(hist) :
           hist[j].result = "ok" /\ Ordinary(hist[j].size)) =>
        /\ Len(d.ranges) = d.concurrency
        /\ (result = "ok" /\ unlinkOpen) =>
              \A k \in 1..Len(task) :
                  CreatedPiece(k) => task[k].file \notin DOMAIN scratch

\* The goroutines launched that have not ended yet.
Running == {k \in 1..Len(task) : task[k].pc # "done"}

\* C20 (LiveSpec): when every operation returns, Download terminates: the
\* wait group counts the goroutines still running (each signals it once, on
\* every exit path), so a job that is fetching gets past the barrier into
\* the merge, a job that is merging reaches Done or Failed, and every job
\* eventually is Done or Failed.
C20_Terminates ==
    /\ [](wg = Cardinality(Running))
    /\ (pc = "Fetching") ~> (pc = "Merging")
    /\ (pc = "Merging") ~> (pc \in {"Done", "Failed"})
    /\ <>(pc \in {"Done", "Failed"})

\* C20 witness: two goroutines returned errors on different exit paths, the
\* wait group went back to zero, mergeFiles ran and the job has ended.
C20_Witness ==
    /\ pc = "Failed" /\ result = "mergeErr" /\ wg = 0
    /\ \E j, k \in 1..Len(task) :
          /\ task[j].cause = "connect"
          /\ task[k].cause = "copy"

=============================================================================
